---- MODULE Spec2Model ----
(***************************************************************************)
(* Bloom Scroll: the finite feed endpoint (app/api/routes.py), the Bloom   *)
(* Algorithm (app/curation/bloom_algorithm.py) and the vector math of the  *)
(* NLP processor (app/analysis/processor.py).                              *)
(*                                                                         *)
(* Numbers.  The source computes with floats.  Here an embedding is a      *)
(* vector of rationals [num |-> <<n1, ..>>, den |-> d] (component i is     *)
(* num[i]/d), a cosine similarity is the exact real p / sqrt(n1 * n2)      *)
(* kept as the record [p, n1, n2], and a threshold such as 0.3 is the pair *)
(* <<3, 10>>.  Every comparison is decided exactly by integer arithmetic.  *)
(* Embeddings have 2 components here, 384 in the source.                   *)
(***************************************************************************)
EXTENDS Integers, Sequences, FiniteSets, TLC

VARIABLES
    store,       \* bloom_cards table, newest first (ORDER BY created_at DESC)
    read_today,  \* the caller's counter, echoed as read_count
    served_today,  \* the cards the caller has been served today
    session_log,  \* what the caller of SpecCountdown noted of its requests
    pc,          \* "idle": caller may send a request; "responded": a response is out
    request,     \* query parameters of the request being answered
    response,    \* what the endpoint returned for it
    db_calls,    \* the store queries the request issued, in order
    selector,    \* what BloomAlgorithm.generate_feed did for the request
    nlp_processor  \* the global _nlp_processor of app/analysis/processor.py

vars == <<store, read_today, served_today, session_log, pc, request, response,
          db_calls, selector, nlp_processor>>

----------------------------------------------------------------------------
(* Bounds of the model *)

MaxCards == 2
MaxContext == 1
MaxStore == 3
MaxIds == 2
MaxPool == 4

(* Program constants *)

DAILY_LIMIT == 20
MinDistance == <<3, 10>>
MaxDistance == <<8, 10>>

----------------------------------------------------------------------------
(* Integer helpers *)

Sign(x) == IF x > 0 THEN 1 ELSE IF x < 0 THEN -1 ELSE 0

Abs(x) == IF x < 0 THEN -x ELSE x

Min(a, b) == IF a <= b THEN a ELSE b

RECURSIVE GCD(_, _)
GCD(a, b) == IF b = 0 THEN a ELSE GCD(b, a % b)

Take(seq, n) == SubSeq(seq, 1, Min(n, Len(seq)))

Reduce(q) ==
    LET g == GCD(Abs(q[1]), q[2]) IN <<q[1] \div g, q[2] \div g>>

----------------------------------------------------------------------------
(* Vectors: Python lists of floats; None and [] are the falsy ones *)

NoVector == [num |-> <<>>, den |-> 1]

ZeroVector == [num |-> <<0, 0>>, den |-> 1]

Truthy(v) == Len(v.num) > 0

ZeroCheckForgotten(v) == FALSE

(* all(v == 0.0 for v in context_vector) *)
AllZero(v) == \A i \in 1..Len(v.num) : v.num[i] = 0

RECURSIVE DotTo(_, _, _)
DotTo(a, b, n) == IF n = 0 THEN 0 ELSE a[n] * b[n] + DotTo(a, b, n - 1)

dot(a, b) == DotTo(a, b, Len(a))

RECURSIVE SumTo(_, _, _)
SumTo(vs, i, n) == IF n = 0 THEN 0 ELSE vs[n].num[i] + SumTo(vs, i, n - 1)

RECURSIVE GcdTo(_, _)
GcdTo(s, n) == IF n = 0 THEN 0 ELSE GCD(Abs(s[n]), GcdTo(s, n - 1))

(* np.mean(embeddings, axis=0) of integer vectors, in lowest terms *)
mean(vs) ==
    LET k == Len(vs)
        s == [i \in 1..Len(vs[1].num) |-> SumTo(vs, i, k)]
        g == GCD(k, GcdTo(s, Len(s)))
    IN  [num |-> [i \in 1..Len(s) |-> s[i] \div g], den |-> k \div g]

calculate_context_vector(embeddings) ==
    IF Len(embeddings) = 0 THEN ZeroVector ELSE mean(embeddings)

ZeroSimilarity == [p |-> 0, n1 |-> 1, n2 |-> 1]

calculate_cosine_similarity_unguarded(embedding1, embedding2) ==
    IF Len(embedding1.num) # Len(embedding2.num)
    THEN ZeroSimilarity
    ELSE [p |-> dot(embedding1.num, embedding2.num),
          n1 |-> dot(embedding1.num, embedding1.num),
          n2 |-> dot(embedding2.num, embedding2.num)]

(* np.dot raises on vectors of different lengths; the except branch returns  *)
(* 0.0                                                                       *)
calculate_cosine_similarity(embedding1, embedding2) ==
    IF Len(embedding1.num) # Len(embedding2.num)
    THEN ZeroSimilarity
    ELSE LET dot_product == dot(embedding1.num, embedding2.num)
             norm1sq == dot(embedding1.num, embedding1.num)
             norm2sq == dot(embedding2.num, embedding2.num)
         IN  IF norm1sq = 0 \/ norm2sq = 0
             THEN ZeroSimilarity
             ELSE [p |-> dot_product, n1 |-> norm1sq, n2 |-> norm2sq]

calculate_cosine_distance(embedding1, embedding2) ==
    [one_minus |-> calculate_cosine_similarity(embedding1, embedding2)]

(* sign of  s - a/b  for a similarity s and a rational a/b >= 0 *)
SimilarityCmp(s, a, b) ==
    IF s.p < 0 THEN -1 ELSE Sign(s.p * s.p * b * b - a * a * s.n1 * s.n2)

(* sign of  d - q  for a distance d = 1 - s and a rational 0 <= q <= 1 *)
DistanceCmp(d, q) == 0 - SimilarityCmp(d.one_minus, q[2] - q[1], q[2])

(* sign of  s1 - s2  for two similarities *)
SimilarityDiff(s1, s2) ==
    IF s1.p >= 0 /\ s2.p < 0 THEN 1
    ELSE IF s1.p < 0 /\ s2.p >= 0 THEN -1
    ELSE LET x == Sign(s1.p * s1.p * s2.n1 * s2.n2 - s2.p * s2.p * s1.n1 * s1.n2)
         IN  IF s1.p >= 0 THEN x ELSE 0 - x

(* rationals <<numerator, denominator>> with a positive denominator, kept   *)
(* in lowest terms                                                           *)
RatAdd(a, b) == Reduce(<<a[1] * b[2] + b[1] * a[2], a[2] * b[2]>>)

RatSub(a, b) == Reduce(<<a[1] * b[2] - b[1] * a[2], a[2] * b[2]>>)

RatMul(a, b) == Reduce(<<a[1] * b[1], a[2] * b[2]>>)

(* the square of a similarity *)
SimilaritySquared(s) == Reduce(<<s.p * s.p, s.n1 * s.n2>>)

(* sign of  s1 + s2 - u  for two positive similarities and a rational u > 0: *)
(* (s1 + s2)^2 against u^2, that is 2 * s1 * s2 against A = u^2 - s1^2 -     *)
(* s2^2, squared once more when A >= 0.                                      *)
SimilaritySumCmp(s1, s2, u) ==
    LET c1 == SimilaritySquared(s1)
        c2 == SimilaritySquared(s2)
        A == RatSub(RatSub(RatMul(u, u), c1), c2)
    IN  IF A[1] < 0 THEN 1
        ELSE Sign(RatSub(RatMul(<<4, 1>>, RatMul(c1, c2)), RatMul(A, A))[1])

(* ideal_distance = (min_distance + max_distance) / 2 *)
IdealDistance(min_distance, max_distance) ==
    Reduce(<<min_distance[1] * max_distance[2] + max_distance[1] * min_distance[2],
             2 * min_distance[2] * max_distance[2]>>)

(* sign of  abs(d1 - ideal) - abs(d2 - ideal): the order of the sort keys.   *)
(* With t = 1 - ideal, abs(d - ideal) = abs(s - t) for the similarity s.     *)
DeviationCmp(d1, d2, ideal) ==
    LET s1 == d1.one_minus
        s2 == d2.one_minus
        side1 == SimilarityCmp(s1, ideal[2] - ideal[1], ideal[2])
        side2 == SimilarityCmp(s2, ideal[2] - ideal[1], ideal[2])
        twice == Reduce(<<2 * (ideal[2] - ideal[1]), ideal[2]>>)
    IN  IF side1 >= 0 /\ side2 >= 0 THEN SimilarityDiff(s1, s2)
        ELSE IF side1 <= 0 /\ side2 <= 0 THEN SimilarityDiff(s2, s1)
        ELSE IF side1 > 0 THEN SimilaritySumCmp(s1, s2, twice)
        ELSE 0 - SimilaritySumCmp(s1, s2, twice)

(* list.sort(key=...): stable, ascending.  x goes before the first element   *)
(* whose key is strictly greater.                                            *)
RECURSIVE InsertByKeyUnstable(_, _, _)
InsertByKeyUnstable(x, sorted, ideal) ==
    IF Len(sorted) = 0 THEN <<x>>
    ELSE IF DeviationCmp(x[1], sorted[1][1], ideal) <= 0 THEN <<x>> \o sorted
    ELSE <<sorted[1]>> \o InsertByKeyUnstable(x, Tail(sorted), ideal)

RECURSIVE InsertByKey(_, _, _)
InsertByKey(x, sorted, ideal) ==
    IF Len(sorted) = 0 THEN <<x>>
    ELSE IF DeviationCmp(x[1], sorted[1][1], ideal) < 0 THEN <<x>> \o sorted
    ELSE <<sorted[1]>> \o InsertByKey(x, Tail(sorted), ideal)

RECURSIVE SortTo(_, _, _)
SortTo(pairs, n, ideal) ==
    IF n = 0 THEN <<>>
    ELSE InsertByKey(pairs[n], SortTo(pairs, n - 1, ideal), ideal)

sort_by_deviation(pairs, ideal) == SortTo(pairs, Len(pairs), ideal)

(* get_nlp_processor(): the global instance, created by the first call *)
get_nlp_processor(current) == IF current = "None" THEN "NLPProcessor" ELSE current

----------------------------------------------------------------------------
(* BloomAlgorithm *)

get_recent_cards_oldest_first(cards, limit) ==
    LET n == Min(limit, Len(cards))
    IN  [i \in 1..n |-> cards[Len(cards) - i + 1]]

get_recent_cards(cards, limit) == Take(cards, limit)

calculate_user_context_per_id(cards, card_ids) ==
    LET Found(id) == \E k \in 1..Len(cards) :
                        cards[k].id = id /\ Truthy(cards[k].embedding)
        found == SelectSeq(card_ids, Found)
        Row(id) == CHOOSE card \in {cards[k] : k \in 1..Len(cards)} : card.id = id
        embeddings == [i \in 1..Len(found) |-> Row(found[i]).embedding]
    IN  IF Len(embeddings) = 0
        THEN ZeroVector
        ELSE calculate_context_vector(embeddings)

calculate_user_context_unfiltered(cards, card_ids) ==
    LET Wanted(card) == Truthy(card.embedding)
        rows == SelectSeq(cards, Wanted)
        embeddings == [i \in 1..Len(rows) |-> rows[i].embedding]
    IN  IF Len(embeddings) = 0
        THEN ZeroVector
        ELSE calculate_context_vector(embeddings)

calculate_user_context(cards, card_ids) ==
    LET Wanted(card) == /\ \E i \in 1..Len(card_ids) : card_ids[i] = card.id
                        /\ Truthy(card.embedding)
        rows == SelectSeq(cards, Wanted)
        embeddings == [i \in 1..Len(rows) |-> rows[i].embedding]
    IN  IF Len(embeddings) = 0
        THEN ZeroVector
        ELSE calculate_context_vector(embeddings)

InZoneNoMinimum(distance, min_distance, max_distance) ==
    DistanceCmp(distance, max_distance) <= 0

InZone(distance, min_distance, max_distance) ==
    /\ DistanceCmp(distance, min_distance) >= 0
    /\ DistanceCmp(distance, max_distance) <= 0

ResultCardsUntruncated(serendipity_cards, limit) ==
    [i \in 1..Len(serendipity_cards) |-> serendipity_cards[i][2]]

(* [card for _, card in serendipity_cards[:limit]] *)
ResultCards(serendipity_cards, limit) ==
    LET kept == Take(serendipity_cards, limit)
    IN  [i \in 1..Len(kept) |-> kept[i][2]]

query_serendipity_zone_unwindowed(cards, context_vector, limit) ==
    LET HasEmbedding(card) == Truthy(card.embedding)
        all_cards == SelectSeq(cards, HasEmbedding)
        scored == [i \in 1..Len(all_cards) |->
                     <<calculate_cosine_distance(all_cards[i].embedding, context_vector),
                       all_cards[i]>>]
        Serendipitous(pair) == InZone(pair[1], MinDistance, MaxDistance)
        serendipity_cards ==
            sort_by_deviation(SelectSeq(scored, Serendipitous),
                              IdealDistance(MinDistance, MaxDistance))
    IN  ResultCards(serendipity_cards, limit)

query_serendipity_zone(cards, context_vector, limit) ==
    LET HasEmbedding(card) == Truthy(card.embedding)
        all_cards == Take(SelectSeq(cards, HasEmbedding), limit * 3)
        scored == [i \in 1..Len(all_cards) |->
                     <<calculate_cosine_distance(all_cards[i].embedding, context_vector),
                       all_cards[i]>>]
        Serendipitous(pair) == InZone(pair[1], MinDistance, MaxDistance)
        serendipity_cards ==
            sort_by_deviation(SelectSeq(scored, Serendipitous),
                              IdealDistance(MinDistance, MaxDistance))
    IN  ResultCards(serendipity_cards, limit)

(* db[k] is TRUE when the k-th store query of the request succeeds.  The     *)
(* result names the path taken, the queries issued and whether one raised.   *)
generate_feed(cards, user_context_ids, limit, db) ==
    IF Len(user_context_ids) = 0
    THEN [path |-> "recent", queries |-> <<"recent">>, raised |-> ~db[1],
          context_vector |-> NoVector,
          user_context_ids |-> user_context_ids, limit |-> limit,
          cards |-> IF db[1] THEN get_recent_cards(cards, limit) ELSE <<>>]
    ELSE IF ~db[1]
    THEN [path |-> "none", queries |-> <<"context">>, raised |-> TRUE,
          context_vector |-> NoVector,
          user_context_ids |-> user_context_ids, limit |-> limit,
          cards |-> <<>>]
    ELSE LET context_vector == calculate_user_context(cards, user_context_ids)
         IN  IF ~Truthy(context_vector) \/ AllZero(context_vector)
             THEN [path |-> "degraded", queries |-> <<"context", "recent">>,
                   raised |-> ~db[2], context_vector |-> context_vector,
                   user_context_ids |-> user_context_ids, limit |-> limit,
                   cards |-> IF db[2] THEN get_recent_cards(cards, limit) ELSE <<>>]
             ELSE [path |-> "ranked", queries |-> <<"context", "pool">>,
                   raised |-> ~db[2], context_vector |-> context_vector,
                   user_context_ids |-> user_context_ids, limit |-> limit,
                   cards |-> IF db[2]
                             THEN query_serendipity_zone(cards, context_vector, limit)
                             ELSE <<>>]

(* A score is a float.  Exactly(q) is the rational q; Proximity(..) is the   *)
(* real 1.0 - abs(distance - ideal_distance) / max_deviation.                *)
Exactly(q) == [exact |-> TRUE, value |-> q]

Proximity(distance, ideal_distance, max_deviation) ==
    [exact |-> FALSE, distance |-> distance, ideal_distance |-> ideal_distance,
     max_deviation |-> max_deviation]

(* sign of  score - q  for a rational 0 <= q <= 1:  for a Proximity it is    *)
(* the sign of  (1 - q) * max_deviation - abs(distance - ideal_distance)     *)
ScoreCmp(score, q) ==
    IF score.exact THEN Sign(RatSub(score.value, q)[1])
    ELSE LET r == RatMul(RatSub(<<1, 1>>, q), score.max_deviation)
             low == DistanceCmp(score.distance, RatSub(score.ideal_distance, r))
             high == DistanceCmp(score.distance, RatAdd(score.ideal_distance, r))
         IN  IF low > 0 /\ high < 0 THEN 1
             ELSE IF low < 0 \/ high > 0 THEN -1
             ELSE 0

(* sign of  score1 - score2  for two scores of the same zone *)
ScoreDiff(score1, score2) ==
    IF score2.exact THEN ScoreCmp(score1, score2.value)
    ELSE IF score1.exact THEN 0 - ScoreCmp(score2, score1.value)
    ELSE 0 - DeviationCmp(score1.distance, score2.distance, score1.ideal_distance)

(* max(0.0, min(1.0, score)) *)
Clamp(score) ==
    IF ScoreCmp(score, <<0, 1>>) < 0 THEN Exactly(<<0, 1>>)
    ELSE IF ScoreCmp(score, <<1, 1>>) > 0 THEN Exactly(<<1, 1>>)
    ELSE score

calculate_serendipity_score_unhalved(card_embedding, context_vector, min_distance, max_distance) ==
    LET distance == calculate_cosine_distance(card_embedding, context_vector)
    IN  IF DistanceCmp(distance, min_distance) < 0
           \/ DistanceCmp(distance, max_distance) > 0
        THEN Exactly(<<0, 1>>)
        ELSE Clamp(Proximity(distance, IdealDistance(min_distance, max_distance),
                             RatSub(max_distance, min_distance)))

calculate_serendipity_score(card_embedding, context_vector, min_distance, max_distance) ==
    LET distance == calculate_cosine_distance(card_embedding, context_vector)
    IN  IF DistanceCmp(distance, min_distance) < 0
           \/ DistanceCmp(distance, max_distance) > 0
        THEN Exactly(<<0, 1>>)
        ELSE Clamp(Proximity(distance, IdealDistance(min_distance, max_distance),
                             RatMul(RatSub(max_distance, min_distance), <<1, 2>>)))

calculate_reason_tag_inclusive(card, context_vector) ==
    IF ~Truthy(context_vector) \/ ~Truthy(card.embedding) THEN "RECENT"
    ELSE LET distance == calculate_cosine_distance(card.embedding, context_vector)
         IN  IF Len(card.blindspot_tags) > 0 THEN "BLINDSPOT_BREAKER"
             ELSE IF DistanceCmp(distance, <<6, 10>>) >= 0 THEN "EXPLORE"
             ELSE IF DistanceCmp(distance, <<4, 10>>) >= 0 THEN "PERSPECTIVE_SHIFT"
             ELSE "DEEP_DIVE"

calculate_reason_tag_distance_first(card, context_vector) ==
    IF ~Truthy(context_vector) \/ ~Truthy(card.embedding) THEN "RECENT"
    ELSE LET distance == calculate_cosine_distance(card.embedding, context_vector)
         IN  IF DistanceCmp(distance, <<6, 10>>) > 0 THEN "EXPLORE"
             ELSE IF Len(card.blindspot_tags) > 0 THEN "BLINDSPOT_BREAKER"
             ELSE IF DistanceCmp(distance, <<4, 10>>) > 0 THEN "PERSPECTIVE_SHIFT"
             ELSE IF DistanceCmp(distance, <<4, 10>>) < 0 THEN "DEEP_DIVE"
             ELSE "SERENDIPITY"

calculate_reason_tag(card, context_vector) ==
    IF ~Truthy(context_vector) \/ ~Truthy(card.embedding) THEN "RECENT"
    ELSE LET distance == calculate_cosine_distance(card.embedding, context_vector)
         IN  IF Len(card.blindspot_tags) > 0 THEN "BLINDSPOT_BREAKER"
             ELSE IF DistanceCmp(distance, <<6, 10>>) > 0 THEN "EXPLORE"
             ELSE IF DistanceCmp(distance, <<4, 10>>) > 0 THEN "PERSPECTIVE_SHIFT"
             ELSE IF DistanceCmp(distance, <<4, 10>>) < 0 THEN "DEEP_DIVE"
             ELSE "SERENDIPITY"

----------------------------------------------------------------------------
(* GET /feed *)

(* UUID(card_id): identifier 0 stands for a text that is no UUID *)
UUIDAcceptsAll(card_id) == TRUE

UUIDParses(card_id) == card_id > 0

(* Query(1, ge=1), Query(0, ge=0), Query(10, ge=1, le=20) *)
ParametersValid(page, read_count, limit) ==
    page >= 1 /\ read_count >= 0 /\ limit >= 1 /\ limit <= 20

RemainingOffByOne(read_count) == DAILY_LIMIT - read_count + 1

QuotaReachedStrict(remaining_cards) == remaining_cards < 0

(* if remaining_cards <= 0 *)
QuotaReached(remaining_cards) == remaining_cards <= 0

RemainingCards(read_count) == DAILY_LIMIT - read_count

EffectiveLimitUncapped(limit, remaining_cards) == limit

EffectiveLimit(limit, remaining_cards) == Min(limit, remaining_cards)

HasNextPageInclusive(new_read_count) == new_read_count <= DAILY_LIMIT

HasNextPage(new_read_count) == new_read_count < DAILY_LIMIT

FallbackUnlimited(cards, effective_limit) == cards

(* select(BloomCard).order_by(created_at.desc()).limit(effective_limit) *)
FallbackCards(cards, effective_limit) == Take(cards, effective_limit)

ErrorResponse(status_code, error) == [status |-> status_code, error |-> error]

NotInvoked ==
    [path |-> "not_invoked", queries |-> <<>>, raised |-> FALSE,
     context_vector |-> NoVector, user_context_ids |-> <<>>, limit |-> 0,
     cards |-> <<>>]

Completion(read_count) ==
    [type |-> "COMPLETION", read_count |-> read_count, daily_limit |-> DAILY_LIMIT]

(* lines 154-182: the new count, the pagination and the completion object *)
FeedResponse(page, effective_limit, user_context, cards_data, new_read_count, has_next_page) ==
    LET pagination == [page |-> page, limit |-> effective_limit,
                       has_next_page |-> has_next_page,
                       total_read_today |-> new_read_count,
                       daily_limit |-> DAILY_LIMIT]
    IN  IF has_next_page
        THEN [status |-> 200, cards |-> cards_data, pagination |-> pagination,
              serendipity_enabled |-> Len(user_context) > 0]
        ELSE [status |-> 200, cards |-> cards_data, pagination |-> pagination,
              serendipity_enabled |-> Len(user_context) > 0,
              completion |-> Completion(new_read_count)]

CardsDataStopsAtFailure(selected, context_vector, unconvertible) ==
    LET Before(k) == \A j \in 1..k : selected[j].id \notin unconvertible
        converted == SelectSeq([k \in 1..Len(selected) |->
                                  [card |-> selected[k], ok |-> Before(k)]],
                               LAMBDA x : x.ok)
    IN  [k \in 1..Len(converted) |->
           [id |-> converted[k].card.id,
            reason_tag |-> IF Truthy(context_vector)
                           THEN calculate_reason_tag(converted[k].card, context_vector)
                           ELSE "RECENT"]]

(* lines 142-152: each card gets its reason tag; a card whose conversion     *)
(* raises is skipped                                                         *)
CardsData(selected, context_vector, unconvertible) ==
    LET Converts(card) == card.id \notin unconvertible
        converted == SelectSeq(selected, Converts)
    IN  [k \in 1..Len(converted) |->
           [id |-> converted[k].id,
            reason_tag |-> IF Truthy(context_vector)
                           THEN calculate_reason_tag(converted[k], context_vector)
                           ELSE "RECENT"]]

PageOfOffset(page, read_count, effective_limit, user_context, cards_data) ==
    FeedResponse(page, effective_limit, user_context,
                 SubSeq(cards_data, (page - 1) * effective_limit + 1, Len(cards_data)),
                 read_count + Len(cards_data),
                 HasNextPage(read_count + Len(cards_data)))

PageOf(page, read_count, effective_limit, user_context, cards_data) ==
    FeedResponse(page, effective_limit, user_context, cards_data,
                 read_count + Len(cards_data),
                 HasNextPage(read_count + Len(cards_data)))

(* lines 113-140: feed is what generate_feed did.  When it returned and      *)
(* there are context ids the context vector is computed once more; when a    *)
(* query of the try block raised, the fallback query runs, outside any try.  *)
ServeFeed(cards, user_context, page, read_count, effective_limit, db, unconvertible, feed) ==
    LET again == ~feed.raised /\ Len(user_context) > 0
        tried == feed.queries \o (IF again THEN <<"context">> ELSE <<>>)
        failed == ~db[Len(tried)]
        issued == [k \in 1..Len(tried) |-> [query |-> tried[k], ok |-> db[k]]]
    IN  IF failed /\ ~db[Len(tried) + 1]
        THEN [response |-> ErrorResponse(503, "database_unavailable"),
              db_calls |-> Append(issued, [query |-> "fallback", ok |-> FALSE]),
              selector |-> feed]
        ELSE IF failed
        THEN [response |->
                PageOf(page, read_count, effective_limit, user_context,
                       CardsData(FallbackCards(cards, effective_limit), NoVector,
                                 unconvertible)),
              db_calls |-> Append(issued, [query |-> "fallback", ok |-> TRUE]),
              selector |-> feed]
        ELSE [response |->
                PageOf(page, read_count, effective_limit, user_context,
                       CardsData(feed.cards,
                                 IF Len(user_context) = 0
                                 THEN NoVector
                                 ELSE calculate_user_context(cards, user_context),
                                 unconvertible)),
              db_calls |-> issued,
              selector |-> feed]

(* the answer of the endpoint: the response, the store queries issued and    *)
(* what generate_feed did.  db[k]: the k-th store query of the request       *)
(* succeeds; unconvertible: ids of the cards whose to_dict raises.           *)
get_feed(cards, user_context, page, read_count, limit, db, unconvertible) ==
    IF ~ParametersValid(page, read_count, limit)
    THEN [response |-> ErrorResponse(422, "validation_error"),
          db_calls |-> <<>>, selector |-> NotInvoked]
    ELSE IF QuotaReached(RemainingCards(read_count))
    THEN [response |->
            [status |-> 200, cards |-> <<>>,
             pagination |-> [page |-> page, limit |-> limit,
                             has_next_page |-> FALSE,
                             total_read_today |-> read_count,
                             daily_limit |-> DAILY_LIMIT],
             completion |-> Completion(read_count)],
          db_calls |-> <<>>, selector |-> NotInvoked]
    ELSE IF \E i \in 1..Len(user_context) : ~UUIDParses(user_context[i])
    THEN [response |-> ErrorResponse(422, "invalid_uuid"),
          db_calls |-> <<>>, selector |-> NotInvoked]
    ELSE ServeFeed(cards, user_context, page, read_count,
                   EffectiveLimit(limit, RemainingCards(read_count)), db,
                   unconvertible,
                   generate_feed(cards, user_context,
                                 EffectiveLimit(limit, RemainingCards(read_count)),
                                 db))

----------------------------------------------------------------------------
(* The inputs *)

Embeddings == {[num |-> <<2, 1>>, den |-> 1], [num |-> <<0, 1>>, den |-> 1]}

CardKinds ==
    {[embedding |-> e, blindspot_tags |-> <<>>] : e \in Embeddings \cup {NoVector}}

(* stores of at most n cards, newest first; the newest has the greatest id *)
Stores(n) ==
    UNION {{[i \in 1..k |-> [id |-> k - i + 1,
                             embedding |-> kinds[i].embedding,
                             blindspot_tags |-> kinds[i].blindspot_tags]] :
              kinds \in [1..k -> CardKinds]} : k \in 0..n}

ContextLists(ids, n) == UNION {[1..k -> ids] : k \in 0..n}

Pages == {1, 2}

Limits == {-10, 1, 20, 21}

ReadCounts == {0} \cup ((DAILY_LIMIT - 1)..(DAILY_LIMIT + 1))

(* the store is up, fails one query, or is down from one query on *)
DbPlans ==
    {[k \in 1..4 |-> TRUE]}
      \cup {[k \in 1..4 |-> k # f] : f \in 1..3}
      \cup {[k \in 1..4 |-> k < f] : f \in 1..3}

(* what goes wrong during one request: nothing, the store as in DbPlans, or  *)
(* the conversion of one card                                                *)
Faults(cards) ==
    {[db |-> plan, unconvertible |-> {}] : plan \in DbPlans}
      \cup {[db |-> [k \in 1..4 |-> TRUE], unconvertible |-> {cards[i].id}] :
               i \in 1..Len(cards)}

(* embeddings of 5 components; RankContext is the context vector they are   *)
(* ranked against.  Cosine distances to RankContext: AtIdeal 0.55,           *)
(* NearIdeal 1 - 1/sqrt(5) = 0.5528, Familiar 0.4, Echo 0.                   *)
RankContext == [num |-> <<1, 0, 0, 0, 0>>, den |-> 1]

AtIdeal == [num |-> <<9, 17, 5, 2, 1>>, den |-> 1]

NearIdeal == [num |-> <<1, 2, 0, 0, 0>>, den |-> 1]

Familiar == [num |-> <<3, 4, 0, 0, 0>>, den |-> 1]

EchoChamber == [num |-> <<1, 0, 0, 0, 0>>, den |-> 1]

(* more embeddings, with their cosine distance to RankContext *)
AtMinimum == [num |-> <<7, 7, 1, 1, 0>>, den |-> 1]      \* 0.3

AtMaximum == [num |-> <<1, 4, 2, 2, 0>>, den |-> 1]      \* 0.8

AtSixTenths == [num |-> <<2, 4, 2, 1, 0>>, den |-> 1]    \* 0.6

Close == [num |-> <<4, 3, 0, 0, 0>>, den |-> 1]          \* 0.2

Remote == [num |-> <<1, 3, 0, 0, 0>>, den |-> 1]         \* 0.6838

Orthogonal == [num |-> <<0, 1, 0, 0, 0>>, den |-> 1]     \* 1.0

Opposite == [num |-> <<-1, 0, 0, 0, 0>>, den |-> 1]      \* 2.0

(* an embedding of zeros, as generate_embedding returns when the model fails *)
ZeroEmbedding == [num |-> <<0, 0, 0, 0, 0>>, den |-> 1]

VectorInputs ==
    {AtIdeal, NearIdeal, Familiar, EchoChamber, AtMinimum, AtMaximum,
     AtSixTenths, Close, Remote, Orthogonal, Opposite, ZeroEmbedding}

BlindspotTags == {<<>>, <<"economics">>}

RankKinds ==
    {[embedding |-> e, blindspot_tags |-> <<>>] :
        e \in {AtIdeal, NearIdeal, Familiar, EchoChamber, NoVector}}

(* stores of at most n cards of the given kinds, newest first *)
StoresOf(kinds, n) ==
    UNION {{[i \in 1..k |-> [id |-> k - i + 1,
                             embedding |-> kind[i].embedding,
                             blindspot_tags |-> kind[i].blindspot_tags]] :
              kind \in [1..k -> kinds]} : k \in 0..n}

RankLimits == {1, 2}

NoRequest == [user_context |-> <<>>, page |-> 0, read_count |-> 0, limit |-> 0]

NoResponse == [status |-> 0]

NoLog == [requests |-> 0, all_served |-> TRUE, completed |-> FALSE]

----------------------------------------------------------------------------
(* Spec: one request to GET /feed, with any read_count *)

Init ==
    /\ store \in Stores(MaxCards)
    /\ read_today \in ReadCounts
    /\ served_today = read_today
    /\ session_log = NoLog
    /\ pc = "idle"
    /\ request = NoRequest
    /\ response = NoResponse
    /\ db_calls = <<>>
    /\ selector = NotInvoked
    /\ nlp_processor = "None"

Answer(user_context, page, limit, out) ==
    /\ response' = out.response
    /\ db_calls' = out.db_calls
    /\ selector' = out.selector
    /\ request' = [user_context |-> user_context, page |-> page,
                   read_count |-> read_today, limit |-> limit]
    /\ pc' = "responded"
    /\ nlp_processor' = IF out.selector.path = "not_invoked"
                        THEN nlp_processor
                        ELSE get_nlp_processor(nlp_processor)
    /\ UNCHANGED <<store, read_today, served_today, session_log>>

GetFeed(user_context, page, limit, db, unconvertible) ==
    /\ pc = "idle"
    /\ Answer(user_context, page, limit,
              get_feed(store, user_context, page, read_today, limit, db,
                       unconvertible))

Request ==
    \E user_context \in ContextLists(0..(MaxCards + 1), MaxContext),
       page \in Pages, limit \in Limits, fault \in Faults(store) :
        GetFeed(user_context, page, limit, fault.db, fault.unconvertible)

Next == Request

Spec == Init /\ [][Next]_vars

----------------------------------------------------------------------------
(* SpecSession: a caller that echoes total_read_today as its next read_count *)

InitSession ==
    /\ store \in Stores(MaxCards)
    /\ read_today = 0
    /\ served_today = read_today
    /\ session_log = NoLog
    /\ pc = "idle"
    /\ request = NoRequest
    /\ response = NoResponse
    /\ db_calls = <<>>
    /\ selector = NotInvoked
    /\ nlp_processor = "None"

SessionRequest ==
    \E user_context \in ContextLists(0..(MaxCards + 1), MaxContext),
       limit \in Limits, db \in DbPlans :
        GetFeed(user_context, 1, limit, db, {})

Echo ==
    /\ pc = "responded"
    /\ read_today' = IF response.status = 200
                     THEN response.pagination.total_read_today
                     ELSE read_today
    /\ served_today' = IF response.status = 200
                       THEN served_today + Len(response.cards)
                       ELSE served_today
    /\ pc' = "idle"
    /\ request' = NoRequest
    /\ response' = NoResponse
    /\ db_calls' = <<>>
    /\ selector' = NotInvoked
    /\ UNCHANGED <<store, session_log, nlp_processor>>

SessionCounts == {0, DAILY_LIMIT - 1}

(* the caller resets its counter: a new day, or a day already begun *)
Reset(n) ==
    /\ pc = "idle"
    /\ read_today # n
    /\ read_today' = n
    /\ served_today' = n
    /\ UNCHANGED <<store, session_log, pc, request, response, db_calls,
                   selector, nlp_processor>>

NewCount == \E n \in SessionCounts : Reset(n)

NextSession == SessionRequest \/ Echo \/ NewCount

SpecSession == InitSession /\ [][NextSession]_vars

----------------------------------------------------------------------------
(* SpecDay: a session that starts the day at read_count 0 and sends its      *)
(* requests one after another, each with the total_read_today of the page    *)
(* before as read_count; the caller never resets its counter.                *)

NextDay == SessionRequest \/ Echo

SpecDay == InitSession /\ [][NextDay]_vars

----------------------------------------------------------------------------
(* SpecCountdown: the session of SpecDay, whose caller also notes in         *)
(* session_log how many responses it has received, whether every request it  *)
(* made while budget remained returned a card, and whether a response        *)
(* carried the completion signal.                                            *)

MaxRequests == 21

CountdownContexts == {<<>>, <<1>>}

CountdownLimits == {1, 20, 21}

CountdownDbPlans ==
    {[k \in 1..4 |-> TRUE], [k \in 1..4 |-> k # 1], [k \in 1..4 |-> FALSE]}

CountdownRequest ==
    /\ session_log.requests < MaxRequests
    /\ \E user_context \in CountdownContexts, limit \in CountdownLimits,
          db \in CountdownDbPlans :
           GetFeed(user_context, 1, limit, db, {})

(* the caller takes the response: it echoes total_read_today and notes the   *)
(* response in its log                                                       *)
Tally ==
    /\ pc = "responded"
    /\ read_today' = IF response.status = 200
                     THEN response.pagination.total_read_today
                     ELSE read_today
    /\ served_today' = IF response.status = 200
                       THEN served_today + Len(response.cards)
                       ELSE served_today
    /\ session_log' =
          [requests |-> session_log.requests + 1,
           all_served |->
               /\ session_log.all_served
               /\ read_today < DAILY_LIMIT
                     => (response.status = 200 /\ Len(response.cards) > 0),
           completed |->
               \/ session_log.completed
               \/ (response.status = 200 /\ "completion" \in DOMAIN response)]
    /\ pc' = "idle"
    /\ request' = NoRequest
    /\ response' = NoResponse
    /\ db_calls' = <<>>
    /\ selector' = NotInvoked
    /\ UNCHANGED <<store, nlp_processor>>

NextCountdown == CountdownRequest \/ Tally

SpecCountdown == InitSession /\ [][NextCountdown]_vars

----------------------------------------------------------------------------
(* SpecSelector: one call of BloomAlgorithm.generate_feed *)

InitSelector ==
    /\ store \in Stores(MaxStore)
    /\ read_today = 0
    /\ served_today = read_today
    /\ session_log = NoLog
    /\ pc = "idle"
    /\ request = NoRequest
    /\ response = NoResponse
    /\ db_calls = <<>>
    /\ selector = NotInvoked
    /\ nlp_processor = "NLPProcessor"

GenerateFeed(user_context_ids, limit, db) ==
    /\ pc = "idle"
    /\ selector' = generate_feed(store, user_context_ids, limit, db)
    /\ pc' = "selected"
    /\ UNCHANGED <<store, read_today, served_today, session_log, request,
                   response, db_calls, nlp_processor>>

NextSelector ==
    \E user_context_ids \in ContextLists(1..(MaxStore + 1), MaxIds),
       limit \in 1..MaxStore, db \in {plan \in DbPlans : plan[3] /\ plan[4]} :
        GenerateFeed(user_context_ids, limit, db)

SpecSelector == InitSelector /\ [][NextSelector]_vars

----------------------------------------------------------------------------
(* SpecConversion: one request to GET /feed while the store is up and the    *)
(* conversion of any of the cards may raise; request keeps, besides the      *)
(* query parameters, the ids of the cards whose conversion raises.           *)

InitConversion ==
    /\ store \in Stores(MaxStore)
    /\ read_today \in {0, DAILY_LIMIT - 2}
    /\ served_today = read_today
    /\ session_log = NoLog
    /\ pc = "idle"
    /\ request = NoRequest
    /\ response = NoResponse
    /\ db_calls = <<>>
    /\ selector = NotInvoked
    /\ nlp_processor = "None"

AnswerSkipping(user_context, limit, unconvertible, out) ==
    /\ response' = out.response
    /\ db_calls' = out.db_calls
    /\ selector' = out.selector
    /\ request' = [user_context |-> user_context, page |-> 1,
                   read_count |-> read_today, limit |-> limit,
                   unconvertible |-> unconvertible]
    /\ pc' = "responded"
    /\ nlp_processor' = IF out.selector.path = "not_invoked"
                        THEN nlp_processor
                        ELSE get_nlp_processor(nlp_processor)
    /\ UNCHANGED <<store, read_today, served_today, session_log>>

GetFeedSkipping(user_context, limit, unconvertible) ==
    /\ pc = "idle"
    /\ AnswerSkipping(user_context, limit, unconvertible,
                      get_feed(store, user_context, 1, read_today, limit,
                               [k \in 1..4 |-> TRUE], unconvertible))

NextConversion ==
    \E user_context \in ContextLists(1..MaxStore, 1), limit \in {2, 20},
       unconvertible \in SUBSET {store[i].id : i \in 1..Len(store)} :
        GetFeedSkipping(user_context, limit, unconvertible)

SpecConversion == InitConversion /\ [][NextConversion]_vars

----------------------------------------------------------------------------
(* SpecRanking: _query_serendipity_zone is run on the store, one card may    *)
(* leave the store, and the query is run again with the same context vector  *)
(* and limit.  request keeps the arguments and the store of the first run,   *)
(* selector its result, response the result of the second run.               *)

InitRanking ==
    /\ store \in StoresOf(RankKinds, MaxPool)
    /\ read_today = 0
    /\ served_today = read_today
    /\ session_log = NoLog
    /\ pc = "idle"
    /\ request = NoRequest
    /\ response = NoResponse
    /\ db_calls = <<>>
    /\ selector = NotInvoked
    /\ nlp_processor = "NLPProcessor"

QuerySerendipityZone(context_vector, limit) ==
    /\ pc = "idle"
    /\ selector' = [path |-> "ranked", queries |-> <<"pool">>, raised |-> FALSE,
                    context_vector |-> context_vector,
                    user_context_ids |-> <<>>, limit |-> limit,
                    cards |-> query_serendipity_zone(store, context_vector, limit)]
    /\ request' = [cards |-> store, context_vector |-> context_vector,
                   limit |-> limit]
    /\ pc' = "selected"
    /\ UNCHANGED <<store, read_today, served_today, session_log, response,
                   db_calls, nlp_processor>>

FirstQuery == \E limit \in RankLimits : QuerySerendipityZone(RankContext, limit)

(* a card is deleted from the store between the two runs *)
DeleteCard(i) ==
    /\ pc = "selected"
    /\ store' = SubSeq(store, 1, i - 1) \o SubSeq(store, i + 1, Len(store))
    /\ pc' = "changed"
    /\ UNCHANGED <<read_today, served_today, session_log, request, response,
                   db_calls, selector, nlp_processor>>

StoreChanges == \E i \in 1..Len(store) : DeleteCard(i)

QueryAgain ==
    /\ pc \in {"selected", "changed"}
    /\ response' = [status |-> 0,
                    cards |-> query_serendipity_zone(store, request.context_vector,
                                                     request.limit)]
    /\ pc' = "compared"
    /\ UNCHANGED <<store, read_today, served_today, session_log, request,
                   db_calls, selector, nlp_processor>>

NextRanking == FirstQuery \/ StoreChanges \/ QueryAgain

SpecRanking == InitRanking /\ [][NextRanking]_vars

----------------------------------------------------------------------------
(* SpecVectors: one call of a function of the vector math or of the scoring. *)
(* request keeps the arguments of the call, response its result.             *)

InitVectors ==
    /\ store = <<>>
    /\ read_today = 0
    /\ served_today = read_today
    /\ session_log = NoLog
    /\ pc = "idle"
    /\ request = NoRequest
    /\ response = NoResponse
    /\ db_calls = <<>>
    /\ selector = NotInvoked
    /\ nlp_processor = "NLPProcessor"

Called(function, arguments, result) ==
    /\ pc = "idle"
    /\ request' = [function |-> function] @@ arguments
    /\ response' = result
    /\ pc' = "returned"
    /\ UNCHANGED <<store, read_today, served_today, session_log, db_calls,
                   selector, nlp_processor>>

CosineDistance ==
    \E embedding1, embedding2 \in VectorInputs \cup {NoVector} :
        Called("calculate_cosine_distance",
               [embedding1 |-> embedding1, embedding2 |-> embedding2],
               [similarity |-> calculate_cosine_similarity(embedding1, embedding2),
                distance |-> calculate_cosine_distance(embedding1, embedding2)])

SerendipityScore ==
    \E card_embedding \in VectorInputs,
       context_vector \in {RankContext, ZeroEmbedding} :
        Called("calculate_serendipity_score",
               [card_embedding |-> card_embedding, context_vector |-> context_vector],
               [score |-> calculate_serendipity_score(card_embedding, context_vector,
                                                      MinDistance, MaxDistance)])

ReasonTag ==
    \E embedding \in VectorInputs \cup {NoVector}, blindspot_tags \in BlindspotTags,
       context_vector \in {RankContext, ZeroEmbedding, NoVector} :
        Called("calculate_reason_tag",
               [card |-> [id |-> 1, embedding |-> embedding,
                          blindspot_tags |-> blindspot_tags],
                context_vector |-> context_vector],
               [reason_tag |-> calculate_reason_tag(
                                   [id |-> 1, embedding |-> embedding,
                                    blindspot_tags |-> blindspot_tags],
                                   context_vector)])

NextVectors == CosineDistance \/ SerendipityScore \/ ReasonTag

SpecVectors == InitVectors /\ [][NextVectors]_vars

----------------------------------------------------------------------------
(* SpecConcurrent: two requests to GET /feed served by one event loop.  A    *)
(* coroutine runs without interruption from one await to the next, and every *)
(* await of get_feed is a store query: a step is the code from one query to  *)
(* the next.  Here pc, request, response, db_calls and selector are          *)
(* functions of the request; selector[r] holds the local variables of the    *)
(* coroutine of request r, request[r].db the fate of the queries of its      *)
(* session.                                                                  *)

Requests == {1, 2}

NewFrame ==
    [effective_limit |-> 0, context_vector |-> NoVector, cards |-> <<>>]

LocalsShared(frames, r) == frames[1]

(* the local variables of a coroutine belong to its frame *)
Locals(frames, r) == frames[r]

InitConcurrent ==
    /\ store \in Stores(MaxCards)
    /\ read_today = 0
    /\ served_today = read_today
    /\ session_log = NoLog
    /\ pc = [r \in Requests |-> "idle"]
    /\ request = [r \in Requests |-> NoRequest]
    /\ response = [r \in Requests |-> NoResponse]
    /\ db_calls = [r \in Requests |-> <<>>]
    /\ selector = [r \in Requests |-> NewFrame]
    /\ nlp_processor = "None"

(* request r goes on at label next with the locals frame, having issued      *)
(* the queries calls                                                         *)
Continue(r, next, frame, calls) ==
    /\ pc' = [pc EXCEPT ![r] = next]
    /\ selector' = [selector EXCEPT ![r] = frame]
    /\ db_calls' = [db_calls EXCEPT ![r] = calls]
    /\ UNCHANGED <<store, read_today, served_today, session_log, request,
                   response, nlp_processor>>

(* request r returns answer *)
Return(r, answer, calls) ==
    /\ pc' = [pc EXCEPT ![r] = "responded"]
    /\ response' = [response EXCEPT ![r] = answer]
    /\ db_calls' = [db_calls EXCEPT ![r] = calls]
    /\ UNCHANGED <<store, read_today, served_today, session_log, request,
                   selector, nlp_processor>>

(* the k-th query of request r, named query, with its outcome *)
Issued(r, query) ==
    Append(db_calls[r],
           [query |-> query, ok |-> request[r].db[Len(db_calls[r]) + 1]])

QuerySucceeds(r) == request[r].db[Len(db_calls[r]) + 1]

(* routes.py 67-119: from the entry of the handler to the first query *)
Receive(r, user_context, limit, read_count, db) ==
    /\ pc[r] = "idle"
    /\ request' = [request EXCEPT ![r] =
                     [user_context |-> user_context, page |-> 1,
                      read_count |-> read_count, limit |-> limit, db |-> db]]
    /\ db_calls' = db_calls
    /\ UNCHANGED <<store, read_today, served_today, session_log>>
    /\ IF QuotaReached(RemainingCards(read_count))
       THEN /\ response' = [response EXCEPT ![r] =
                              [status |-> 200, cards |-> <<>>,
                               pagination |-> [page |-> 1, limit |-> limit,
                                               has_next_page |-> FALSE,
                                               total_read_today |-> read_count,
                                               daily_limit |-> DAILY_LIMIT],
                               completion |-> Completion(read_count)]]
            /\ pc' = [pc EXCEPT ![r] = "responded"]
            /\ UNCHANGED <<selector, nlp_processor>>
       ELSE /\ nlp_processor' = get_nlp_processor(nlp_processor)
            /\ selector' = [selector EXCEPT ![r] =
                              [NewFrame EXCEPT !.effective_limit =
                                 EffectiveLimit(limit, RemainingCards(read_count))]]
            /\ pc' = [pc EXCEPT ![r] =
                        IF Len(user_context) = 0 THEN "recent" ELSE "context"]
            /\ UNCHANGED response

(* routes.py 154-182 for the cards and the context vector of the tags *)
Page(r, frame, cards, context_vector) ==
    PageOf(request[r].page, request[r].read_count, frame.effective_limit,
           request[r].user_context, CardsData(cards, context_vector, {}))

(* bloom_algorithm.py 70-76: the first context query of generate_feed *)
ContextQuery(r, frame, context_vector) ==
    /\ pc[r] = "context"
    /\ IF ~QuerySucceeds(r)
       THEN Continue(r, "fallback", frame, Issued(r, "context"))
       ELSE Continue(r,
                     IF ~Truthy(context_vector) \/ AllZero(context_vector)
                     THEN "recent" ELSE "pool",
                     [frame EXCEPT !.context_vector = context_vector],
                     Issued(r, "context"))

(* bloom_algorithm.py 67, 73: _get_recent_cards, then routes.py 121-126 *)
RecentQuery(r, frame) ==
    /\ pc[r] = "recent"
    /\ IF ~QuerySucceeds(r)
       THEN Continue(r, "fallback", frame, Issued(r, "recent"))
       ELSE IF Len(request[r].user_context) > 0
       THEN Continue(r, "context_again",
                     [frame EXCEPT !.cards =
                        get_recent_cards(store, frame.effective_limit)],
                     Issued(r, "recent"))
       ELSE Return(r, Page(r, frame,
                           get_recent_cards(store, frame.effective_limit),
                           NoVector),
                   Issued(r, "recent"))

(* bloom_algorithm.py 76: _query_serendipity_zone *)
PoolQuery(r, frame) ==
    /\ pc[r] = "pool"
    /\ IF ~QuerySucceeds(r)
       THEN Continue(r, "fallback", frame, Issued(r, "pool"))
       ELSE Continue(r, "context_again",
                     [frame EXCEPT !.cards =
                        query_serendipity_zone(store, frame.context_vector,
                                               frame.effective_limit)],
                     Issued(r, "pool"))

(* routes.py 122-124: the context vector of the reason tags, then 142-182 *)
ContextAgain(r, frame) ==
    /\ pc[r] = "context_again"
    /\ IF ~QuerySucceeds(r)
       THEN Continue(r, "fallback", frame, Issued(r, "context"))
       ELSE Return(r, Page(r, frame, frame.cards,
                           calculate_user_context(store, request[r].user_context)),
                   Issued(r, "context"))

(* routes.py 128-140: the fallback query, then 142-182 *)
FallbackQuery(r, frame) ==
    /\ pc[r] = "fallback"
    /\ IF ~QuerySucceeds(r)
       THEN Return(r, ErrorResponse(503, "database_unavailable"),
                   Issued(r, "fallback"))
       ELSE Return(r, Page(r, frame, FallbackCards(store, frame.effective_limit),
                           NoVector),
                   Issued(r, "fallback"))

RaceLimits == {1, 2}

RaceReadCounts == {0, DAILY_LIMIT}

(* the store is up, or fails the second query of the request *)
RaceDbPlans == {[k \in 1..4 |-> TRUE], [k \in 1..4 |-> k # 2]}

Arrives ==
    \E r \in Requests, user_context \in ContextLists(1..MaxCards, 1),
       limit \in RaceLimits, read_count \in RaceReadCounts, db \in RaceDbPlans :
        Receive(r, user_context, limit, read_count, db)

BuildsContext ==
    \E r \in Requests :
        ContextQuery(r, Locals(selector, r),
                     calculate_user_context(store, request[r].user_context))

GetsRecent == \E r \in Requests : RecentQuery(r, Locals(selector, r))

GetsPool == \E r \in Requests : PoolQuery(r, Locals(selector, r))

BuildsContextAgain == \E r \in Requests : ContextAgain(r, Locals(selector, r))

FallsBack == \E r \in Requests : FallbackQuery(r, Locals(selector, r))

NextConcurrent ==
    \/ Arrives
    \/ BuildsContext
    \/ GetsRecent
    \/ GetsPool
    \/ BuildsContextAgain
    \/ FallsBack

SpecConcurrent == InitConcurrent /\ [][NextConcurrent]_vars

----------------------------------------------------------------------------
(* Properties *)

Answered == pc = "responded"

IsPage == Answered /\ response.status = 200

HasCompletion == "completion" \in DOMAIN response

RequestInvalid ==
    \/ request.limit < 1
    \/ request.limit > 20
    \/ \E i \in 1..Len(request.user_context) : request.user_context[i] <= 0

SomeQueryFailed == \E k \in 1..Len(db_calls) : ~db_calls[k].ok

(* a is b with some elements left out, the order kept *)
RECURSIVE IsSubsequence(_, _)
IsSubsequence(a, b) ==
    IF Len(a) = 0 THEN TRUE
    ELSE IF Len(b) = 0 THEN FALSE
    ELSE IF a[1] = b[1] THEN IsSubsequence(Tail(a), Tail(b))
    ELSE IsSubsequence(a, Tail(b))

Ids(cards) == [k \in 1..Len(cards) |-> cards[k].id]

Newest(n) == SubSeq(store, 1, IF n < Len(store) THEN n ELSE Len(store))

(* 0.3 <= 1 - p/sqrt(n1*n2) <= 0.8, that is 0.2 <= p/sqrt(n1*n2) <= 0.7 *)
DistanceWithinZone(embedding, context_vector) ==
    LET p == dot(embedding.num, context_vector.num)
        q == dot(embedding.num, embedding.num)
               * dot(context_vector.num, context_vector.num)
    IN  q > 0 /\ p > 0 /\ 100 * p * p >= 4 * q /\ 100 * p * p <= 49 * q

(* C1: a request that reaches the handler with read_count >= DAILY_LIMIT is  *)
(* answered with zero cards, has_next_page false and a completion signal,    *)
(* whatever its limit (within 1..20), page and user_context.                 *)
C1_QuotaGate ==
    (Answered /\ request.read_count >= DAILY_LIMIT /\ request.limit \in 1..20)
        => /\ response.status = 200
           /\ response.cards = <<>>
           /\ ~response.pagination.has_next_page
           /\ HasCompletion

C1_Witness ==
    /\ Answered
    /\ request.read_count > DAILY_LIMIT
    /\ request.limit = 20
    /\ request.page = 2
    /\ request.user_context = <<0>>
    /\ response.status = 200
    /\ response.cards = <<>>
    /\ HasCompletion

(* C2: with read_count < DAILY_LIMIT the limit given to generate_feed is     *)
(* min(limit, DAILY_LIMIT - read_count), and the page never has more than    *)
(* DAILY_LIMIT - read_count cards, on the ranked, recency and fallback paths. *)
C2_EffectiveLimit ==
    (Answered /\ request.read_count < DAILY_LIMIT)
        => /\ selector.path # "not_invoked" =>
                /\ selector.limit <= request.limit
                /\ selector.limit <= DAILY_LIMIT - request.read_count
                /\ \/ selector.limit = request.limit
                   \/ selector.limit = DAILY_LIMIT - request.read_count
           /\ response.status = 200 =>
                Len(response.cards) <= DAILY_LIMIT - request.read_count

C2_Witness ==
    /\ IsPage
    /\ request.read_count = DAILY_LIMIT - 1
    /\ request.limit = 20
    /\ selector.limit = 1
    /\ SomeQueryFailed
    /\ Len(response.cards) = 1
    /\ Len(store) > 1

(* C3: in every feed response total_read_today = read_count + number of      *)
(* cards, has_next_page holds exactly when that count is below DAILY_LIMIT,  *)
(* and the completion signal is attached exactly when has_next_page is false. *)
C3_Pagination ==
    IsPage
        => /\ response.pagination.total_read_today
                = request.read_count + Len(response.cards)
           /\ response.pagination.has_next_page
                <=> (request.read_count + Len(response.cards) < DAILY_LIMIT)
           /\ HasCompletion <=> ~response.pagination.has_next_page

C3_Witness ==
    /\ IsPage
    /\ request.read_count = DAILY_LIMIT - 1
    /\ Len(response.cards) = 1
    /\ HasCompletion
    /\ ~response.pagination.has_next_page
    /\ response.pagination.total_read_today = DAILY_LIMIT

(* the session is over: the last page carried the completion signal, or the  *)
(* counter the caller echoes is at the limit                                 *)
SessionExhausted ==
    IF IsPage THEN HasCompletion ELSE read_today >= DAILY_LIMIT

(* C4: once a response carries the completion signal the session stays       *)
(* exhausted until the caller resets its counter: every later page has zero  *)
(* cards, has_next_page false and the completion signal.                     *)
C4_ExhaustedIsTerminal ==
    [][(SessionExhausted /\ ~(pc = "idle" /\ pc' = "idle"))
         => /\ SessionExhausted'
            /\ (pc' = "responded" /\ response'.status = 200)
                  => /\ response'.cards = <<>>
                     /\ ~response'.pagination.has_next_page
                     /\ "completion" \in DOMAIN response'
            /\ (pc' = "responded" /\ request'.limit \in 1..20)
                  => response'.status = 200]_vars

C4_Witness ==
    /\ IsPage
    /\ request.read_count = DAILY_LIMIT
    /\ response.cards = <<>>
    /\ HasCompletion
    /\ Len(request.user_context) > 0

(* C5: generate_feed returns at most limit cards on every path *)
C5_AtMostLimit ==
    pc = "selected" => Len(selector.cards) <= selector.limit

C5_Witness ==
    /\ pc = "selected"
    /\ Len(selector.user_context_ids) > 0
    /\ \E i \in 1..Len(selector.context_vector.num) :
            selector.context_vector.num[i] # 0
    /\ Len(selector.cards) = selector.limit
    /\ \E k \in 1..Len(store) :
            /\ \A j \in 1..Len(selector.cards) : selector.cards[j] # store[k]
            /\ DistanceWithinZone(store[k].embedding, selector.context_vector)

(* C6: without context ids the feed is the limit newest cards, newest first, *)
(* no context or candidate-pool query is issued, and every card of the page  *)
(* is tagged RECENT.                                                         *)
C6_NoContext ==
    (Answered /\ Len(request.user_context) = 0 /\ selector.path # "not_invoked")
        => /\ ~selector.raised => selector.cards = Newest(selector.limit)
           /\ \A k \in 1..Len(db_calls) :
                db_calls[k].query \notin {"context", "pool"}
           /\ response.status = 200 =>
                \A k \in 1..Len(response.cards) :
                    response.cards[k].reason_tag = "RECENT"

C6_Witness ==
    /\ IsPage
    /\ Len(request.user_context) = 0
    /\ ~SomeQueryFailed
    /\ Len(response.cards) = 2
    /\ response.cards[1].id = store[1].id
    /\ response.cards[2].id = store[2].id
    /\ Truthy(store[1].embedding)
    /\ \A k \in 1..2 : response.cards[k].reason_tag = "RECENT"

(* C7: a non-empty context list whose context vector is all-zero gives what  *)
(* the call without context gives for the same store and limit               *)
C7_ZeroContextFallback ==
    (/\ pc = "selected"
     /\ Len(selector.user_context_ids) > 0
     /\ ~selector.raised
     /\ \A i \in 1..Len(selector.context_vector.num) :
            selector.context_vector.num[i] = 0)
        => /\ selector.cards
                = generate_feed(store, <<>>, selector.limit, [k \in 1..4 |-> TRUE]).cards
           /\ selector.cards = Newest(selector.limit)

C7_Witness ==
    /\ pc = "selected"
    /\ Len(selector.user_context_ids) > 0
    /\ ~selector.raised
    /\ selector.context_vector = ZeroVector
    /\ Len(selector.cards) = 2
    /\ selector.limit = 2
    /\ Len(store) = 3
    /\ \A k \in 1..3 : Truthy(store[k].embedding) <=> k # 3
    /\ selector.user_context_ids = <<1>>

(* C8 as claimed: every store failure during a request with budget is        *)
(* recovered, the request always produces a page                             *)
C8_AlwaysAPage ==
    (Answered /\ request.read_count < DAILY_LIMIT /\ ~RequestInvalid
        /\ SomeQueryFailed)
        => response.status = 200

(* C8 amended: a failure of generate_feed or of the context computation is   *)
(* recovered when the fallback query for recent cards succeeds: the page is  *)
(* drawn from the effective-limit newest cards, in order, all tagged RECENT. *)
(* When the fallback query fails too the request is answered 503.            *)
C8_RecoveredByFallback ==
    (Answered /\ SomeQueryFailed)
        => /\ db_calls[Len(db_calls)].query = "fallback"
           /\ \A k \in 1..(Len(db_calls) - 2) : db_calls[k].ok
           /\ IF db_calls[Len(db_calls)].ok
              THEN /\ response.status = 200
                   /\ IsSubsequence(Ids(response.cards), Ids(Newest(selector.limit)))
                   /\ Len(response.cards) <= DAILY_LIMIT - request.read_count
                   /\ \A k \in 1..Len(response.cards) :
                        response.cards[k].reason_tag = "RECENT"
              ELSE response.status = 503

C8_Witness ==
    /\ IsPage
    /\ Len(db_calls) = 3
    /\ db_calls[2] = [query |-> "pool", ok |-> FALSE]
    /\ db_calls[3] = [query |-> "fallback", ok |-> TRUE]
    /\ Len(response.cards) = 1
    /\ Len(store) = 2
    /\ response.cards[1] = [id |-> store[1].id, reason_tag |-> "RECENT"]

(* C9 as claimed: a request with an unparsable context id or a limit outside *)
(* 1..20 is rejected with a client error before anything else: no page, no   *)
(* completion signal, no store access                                        *)
C9_InvalidInputRejected ==
    (Answered /\ RequestInvalid)
        => response.status = 422 /\ db_calls = <<>>

(* C9 amended: such a request never reaches the store or generate_feed; it   *)
(* is answered 422, except that an unparsable context id with a valid limit  *)
(* and read_count >= DAILY_LIMIT gets the quota gate's empty page with the   *)
(* completion signal, because the gate is evaluated before the ids.          *)
C9_InvalidInputNoStoreAccess ==
    (Answered /\ RequestInvalid)
        => /\ db_calls = <<>>
           /\ selector.path = "not_invoked"
           /\ IF request.limit \in 1..20 /\ request.read_count >= DAILY_LIMIT
              THEN response.status = 200 /\ response.cards = <<>> /\ HasCompletion
              ELSE response.status = 422

C9_Witness ==
    /\ Answered
    /\ request.user_context = <<0>>
    /\ request.limit = 1
    /\ request.read_count = 0
    /\ Len(store) = 2
    /\ response.status = 422
    /\ db_calls = <<>>

(* C10: every card the ranked path returns lies at a cosine distance between *)
(* min_distance and max_distance from the context vector; a card whose       *)
(* embedding is the context vector itself (distance 0) is not returned       *)
C10_OnlyInZone ==
    (/\ pc = "selected"
     /\ Len(selector.user_context_ids) > 0
     /\ \E i \in 1..Len(selector.context_vector.num) :
            selector.context_vector.num[i] # 0)
        => \A k \in 1..Len(selector.cards) :
              /\ DistanceWithinZone(selector.cards[k].embedding,
                                    selector.context_vector)
              /\ selector.cards[k].embedding # selector.context_vector

C10_Witness ==
    /\ pc = "selected"
    /\ Len(selector.user_context_ids) > 0
    /\ Len(selector.cards) > 0
    /\ \E k \in 1..Len(store) :
            /\ store[k].embedding = selector.context_vector
            /\ store[k].id = selector.user_context_ids[1]
            /\ k < Len(store)
            /\ \A j \in 1..Len(selector.cards) : selector.cards[j] # store[k]

(* the cosine of the angle between an embedding and a context vector, in    *)
(* hundredths, rounded down; for a cosine that is not negative               *)
FloorCos(embedding, context_vector) ==
    LET p == dot(embedding.num, context_vector.num)
        q == dot(embedding.num, embedding.num)
               * dot(context_vector.num, context_vector.num)
    IN  CHOOSE r \in 0..100 :
            r * r * q <= 10000 * p * p /\ 10000 * p * p < (r + 1) * (r + 1) * q

ExactCos(embedding, context_vector) ==
    LET p == dot(embedding.num, context_vector.num)
        q == dot(embedding.num, embedding.num)
               * dot(context_vector.num, context_vector.num)
        r == FloorCos(embedding, context_vector)
    IN  r * r * q = 10000 * p * p

(* bounds, in hundredths, of |distance - 0.55| = |0.45 - cosine| *)
DeviationLow(embedding, context_vector) ==
    LET r == FloorCos(embedding, context_vector)
    IN  IF ExactCos(embedding, context_vector) THEN Abs(45 - r)
        ELSE IF r >= 45 THEN r - 45 ELSE 44 - r

DeviationHigh(embedding, context_vector) ==
    LET r == FloorCos(embedding, context_vector)
    IN  IF ExactCos(embedding, context_vector) THEN Abs(45 - r)
        ELSE IF r >= 45 THEN r - 44 ELSE 45 - r

(* card a is closer to the middle of the zone than card b, whatever the      *)
(* rounding of the hundredths                                                *)
CertainlyCloser(a, b, context_vector) ==
    DeviationHigh(a.embedding, context_vector)
        < DeviationLow(b.embedding, context_vector)

(* distance = 0.55: cosine = 9/20 *)
DistanceIsIdeal(embedding, context_vector) ==
    LET p == dot(embedding.num, context_vector.num)
        q == dot(embedding.num, embedding.num)
               * dot(context_vector.num, context_vector.num)
    IN  p > 0 /\ 400 * p * p = 81 * q

SameDistance(a, b, context_vector) ==
    LET pa == dot(a.embedding.num, context_vector.num)
        pb == dot(b.embedding.num, context_vector.num)
        qa == dot(a.embedding.num, a.embedding.num)
        qb == dot(b.embedding.num, b.embedding.num)
    IN  pa > 0 /\ pb > 0 /\ pa * pa * qb = pb * pb * qa

(* the candidates a query retrieves: the newest 3 * limit cards that have an *)
(* embedding                                                                 *)
PoolOf(cards, limit) ==
    LET Embedded(card) == Len(card.embedding.num) > 0
        embedded == SelectSeq(cards, Embedded)
    IN  SubSeq(embedded, 1, IF 3 * limit < Len(embedded) THEN 3 * limit
                            ELSE Len(embedded))

Ranked == pc = "selected" /\ selector.path = "ranked"

(* C11: the ranked feed is in ascending order of |distance - 0.55|; cards at *)
(* the same distance keep their retrieval order (newest first, the greater   *)
(* id); a card at exactly 0.55 comes before every card at another distance;  *)
(* no candidate left out by the limit is closer than a card that is kept.    *)
C11_OrderedByDeviation ==
    Ranked =>
        LET result == selector.cards
            pool == PoolOf(store, selector.limit)
            cv == selector.context_vector
            Kept(card) == \E j \in 1..Len(result) : result[j] = card
        IN  /\ \A j, k \in 1..Len(result) :
                  j < k =>
                    /\ ~CertainlyCloser(result[k], result[j], cv)
                    /\ SameDistance(result[j], result[k], cv)
                          => result[j].id > result[k].id
                    /\ DistanceIsIdeal(result[k].embedding, cv)
                          => DistanceIsIdeal(result[j].embedding, cv)
            /\ \A i \in 1..Len(pool), j \in 1..Len(result) :
                  (DistanceWithinZone(pool[i].embedding, cv) /\ ~Kept(pool[i]))
                    => /\ ~CertainlyCloser(pool[i], result[j], cv)
                       /\ DistanceIsIdeal(pool[i].embedding, cv)
                             => DistanceIsIdeal(result[j].embedding, cv)
                       /\ Len(result) = selector.limit

C11_Witness ==
    /\ Ranked
    /\ Len(selector.cards) = 2
    /\ Len(store) = 4
    /\ DistanceIsIdeal(selector.cards[1].embedding, selector.context_vector)
    /\ selector.cards[1] = store[4]
    /\ selector.cards[2].embedding = NearIdeal
    /\ selector.cards[2] = store[2]
    /\ store[1].embedding = Familiar
    /\ store[3].embedding = NearIdeal

C13_OnlyFailedCardSkipped ==
    (Answered /\ "unconvertible" \in DOMAIN request)
        => /\ response.status = 200
           /\ Ids(response.cards)
                = SelectSeq(Ids(selector.cards),
                            LAMBDA id : id \notin request.unconvertible)
           /\ response.pagination.total_read_today
                = request.read_count + Len(response.cards)

C13_Witness ==
    /\ Answered
    /\ "unconvertible" \in DOMAIN request
    /\ Ids(selector.cards) = <<3, 2, 1>>
    /\ request.unconvertible = {2}
    /\ Ids(response.cards) = <<3, 1>>
    /\ response.pagination.total_read_today = request.read_count + 2

(* C14: an all-zero context vector is no context: every card of a page      *)
(* produced when the context vector of the request is all-zero has the       *)
(* reason tag RECENT.                                                        *)
C14_ZeroContextTaggedRecent ==
    (IsPage
       /\ Len(request.user_context) > 0
       /\ selector.path = "degraded"
       /\ \A i \in 1..Len(selector.context_vector.num) :
              selector.context_vector.num[i] = 0)
        => \A k \in 1..Len(response.cards) : response.cards[k].reason_tag = "RECENT"

(* the stored cards named by ids that have an embedding *)
Survivors(ids) ==
    {k \in 1..Len(store) :
        /\ \E i \in 1..Len(ids) : ids[i] = store[k].id
        /\ Len(store[k].embedding.num) > 0}

RECURSIVE ComponentSum(_, _)
ComponentSum(S, i) ==
    IF S = {} THEN 0
    ELSE LET k == CHOOSE x \in S : TRUE
         IN  store[k].embedding.num[i] + ComponentSum(S \ {k}, i)

IsAllZero(v) == Len(v.num) > 0 /\ \A i \in 1..Len(v.num) : v.num[i] = 0

(* v is the element-wise mean of the embeddings of the cards in S *)
IsMeanOf(v, S) ==
    /\ v.den > 0
    /\ \A k \in S : Len(store[k].embedding.num) = Len(v.num)
    /\ \A i \in 1..Len(v.num) :
           v.num[i] * Cardinality(S) = v.den * ComponentSum(S, i)

ContextBuilt == pc = "selected" /\ selector.path \in {"degraded", "ranked"}

(* C15: the context vector is the element-wise mean of the embeddings of the *)
(* supplied identifiers that are in the store with an embedding, each card   *)
(* once; it is the all-zero vector when no supplied identifier survives or   *)
(* the list is empty; unknown and embedding-less identifiers raise nothing.  *)
C15_ContextIsMeanOfSurvivors ==
    /\ ContextBuilt =>
         IF Survivors(selector.user_context_ids) = {}
         THEN IsAllZero(selector.context_vector)
         ELSE IsMeanOf(selector.context_vector,
                       Survivors(selector.user_context_ids))
    /\ IsAllZero(calculate_user_context(store, <<>>))

C15_Witness ==
    /\ ContextBuilt
    /\ Len(selector.user_context_ids) = 2
    /\ Cardinality(Survivors(selector.user_context_ids)) = 1
    /\ \E i \in 1..2, k \in 1..Len(store) :
          /\ selector.user_context_ids[i] = store[k].id
          /\ Len(store[k].embedding.num) = 0
    /\ Len(store) = 3
    /\ Cardinality({k \in 1..Len(store) : Len(store[k].embedding.num) > 0}) = 2
    /\ \E k \in Survivors(selector.user_context_ids) :
          selector.context_vector = store[k].embedding

Returned(function) == pc = "returned" /\ request.function = function

(* the cosine of the angle between a and b is below n/d (n, d > 0); it is 0  *)
(* when a norm is zero                                                       *)
CosineBelow(a, b, n, d) ==
    LET p == dot(a.num, b.num)
        q == dot(a.num, a.num) * dot(b.num, b.num)
    IN  p <= 0 \/ d * d * p * p < n * n * q

CosineAbove(a, b, n, d) ==
    LET p == dot(a.num, b.num)
        q == dot(a.num, a.num) * dot(b.num, b.num)
    IN  p > 0 /\ d * d * p * p > n * n * q

(* C16: calculate_reason_tag returns RECENT without a context vector or      *)
(* without an embedding of the card; else BLINDSPOT_BREAKER when the card    *)
(* has blindspot tags, whatever its distance; else EXPLORE when distance >   *)
(* 0.6; else PERSPECTIVE_SHIFT when 0.4 < distance <= 0.6; else DEEP_DIVE    *)
(* when distance < 0.4.  (distance > x is cosine < 1 - x.)                   *)
C16_ReasonTagPrecedence ==
    Returned("calculate_reason_tag") =>
        LET e == request.card.embedding
            cv == request.context_vector
            tag == response.reason_tag
        IN  IF Len(cv.num) = 0 \/ Len(e.num) = 0 THEN tag = "RECENT"
            ELSE IF request.card.blindspot_tags # <<>> THEN tag = "BLINDSPOT_BREAKER"
            ELSE IF CosineBelow(e, cv, 4, 10) THEN tag = "EXPLORE"
            ELSE IF CosineBelow(e, cv, 6, 10) THEN tag = "PERSPECTIVE_SHIFT"
            ELSE CosineAbove(e, cv, 6, 10) => tag = "DEEP_DIVE"

C16_Witness ==
    /\ Returned("calculate_reason_tag")
    /\ request.card.embedding = Orthogonal
    /\ request.context_vector = RankContext
    /\ request.card.blindspot_tags # <<>>
    /\ response.reason_tag = "BLINDSPOT_BREAKER"

(* 0.3 < distance < 0.8 *)
StrictlyInsideZone(embedding, context_vector) ==
    CosineBelow(embedding, context_vector, 7, 10)
        /\ CosineAbove(embedding, context_vector, 2, 10)

ZeroNorm(v) == \A i \in 1..Len(v.num) : v.num[i] = 0

(* C18: when a vector has zero norm the cosine similarity is 0.0 and the     *)
(* cosine distance 1.0, no division by a zero norm is made and nothing is    *)
(* raised; the distance of a non-zero vector to itself is 0.                 *)
C18_CosineFailsClosed ==
    Returned("calculate_cosine_distance") =>
        LET s == response.similarity
            d == response.distance
        IN  /\ s.n1 > 0 /\ s.n2 > 0
            /\ d.one_minus = s
            /\ (ZeroNorm(request.embedding1) \/ ZeroNorm(request.embedding2))
                  => /\ s.p = 0
                     /\ DistanceCmp(d, <<1, 1>>) = 0
            /\ (request.embedding1 = request.embedding2
                   /\ ~ZeroNorm(request.embedding1))
                  => /\ s.p > 0 /\ s.p * s.p = s.n1 * s.n2
                     /\ DistanceCmp(d, <<0, 1>>) = 0

C18_Witness ==
    /\ Returned("calculate_cosine_distance")
    /\ request.embedding1 = AtIdeal
    /\ request.embedding2 = ZeroEmbedding
    /\ response.similarity.p = 0
    /\ DistanceCmp(response.distance, <<1, 1>>) = 0
    /\ DistanceCmp(calculate_cosine_distance(AtIdeal, AtIdeal), <<0, 1>>) = 0

(* two responses are the same but for the echoed page number *)
SameApartFromPage(x, y) ==
    /\ x.status = y.status
    /\ DOMAIN x = DOMAIN y
    /\ IF x.status # 200 THEN x = y
       ELSE /\ x.cards = y.cards
            /\ [x.pagination EXCEPT !.page = 0] = [y.pagination EXCEPT !.page = 0]
            /\ ("completion" \in DOMAIN x) => x.completion = y.completion
            /\ ("serendipity_enabled" \in DOMAIN x)
                  => x.serendipity_enabled = y.serendipity_enabled

(* the answer to the request of the state, had it been sent with that page   *)
(* number and met those faults                                               *)
AnswerWithPage(page, fault) ==
    get_feed(store, request.user_context, page, request.read_count,
             request.limit, fault.db, fault.unconvertible)

PageEchoed(out, page) ==
    out.response.status = 200 => out.response.pagination.page = page

PageIgnored(this, other, page) ==
    this.response = response
        => /\ SameApartFromPage(this.response, other.response)
           /\ this.db_calls = other.db_calls
           /\ this.selector = other.selector
           /\ PageEchoed(other, page)

(* C20: the page number is only echoed: the same request with another page   *)
(* number, against the same store and meeting the same faults, has the same  *)
(* cards in the same order and the same pagination and completion values,    *)
(* the page field apart.                                                     *)
C20_PageIsInformational ==
    (Answered /\ request.page >= 1)
        => \A fault \in Faults(store), page \in Pages :
              PageIgnored(AnswerWithPage(request.page, fault),
                          AnswerWithPage(page, fault), page)

C20_Witness ==
    /\ IsPage
    /\ request.page = 2
    /\ response.pagination.page = 2
    /\ Len(store) = 2
    /\ Ids(response.cards) = <<2>>
    /\ request.limit = 1
    /\ request.read_count = 0
    /\ AnswerWithPage(1, [db |-> [k \in 1..4 |-> TRUE], unconvertible |-> {}])
            .response.cards = response.cards

(* request r has the answer and the queries of out *)
AnsweredAs(r, out) ==
    /\ response[r] = out.response
    /\ db_calls[r] = out.db_calls

(* what request r gets when it is served alone against the store *)
ServedAlone(r) ==
    get_feed(store, request[r].user_context, request[r].page,
             request[r].read_count, request[r].limit, request[r].db, {})

(* C19: two concurrent feed requests do not interact: in every interleaving  *)
(* of their steps each request gets the response, and issues the queries, it *)
(* would if it ran alone against the same store.                             *)
C19_RequestsIndependent ==
    \A r \in Requests : pc[r] = "responded" => AnsweredAs(r, ServedAlone(r))

C19_Witness ==
    /\ pc[1] = "responded"
    /\ pc[2] = "context_again"
    /\ request[1].user_context # request[2].user_context
    /\ request[1].limit = 1
    /\ request[2].limit = 2
    /\ response[1].status = 200
    /\ Len(response[1].cards) = 1
    /\ response[1].cards[1].reason_tag = "PERSPECTIVE_SHIFT"
    /\ Len(selector[2].cards) = 1
    /\ selector[2].cards[1].id # response[1].cards[1].id
    /\ Len(db_calls[1]) = 3

----------------------------------------------------------------------------
(* C21: a request with read_count >= DAILY_LIMIT is answered at the gate:    *)
(* generate_feed is not invoked and no query (context, pool, recent or       *)
(* fallback) is issued against the store for it.                             *)
C21_GateSkipsSelector ==
    (Answered /\ request.read_count >= DAILY_LIMIT)
        => /\ selector = NotInvoked
           /\ db_calls = <<>>
           /\ nlp_processor = "None"

C21_Witness ==
    /\ Answered
    /\ request.read_count = DAILY_LIMIT
    /\ request.limit = 1
    /\ Len(request.user_context) = 1
    /\ request.user_context[1] > 0
    /\ Len(store) = MaxCards
    /\ HasCompletion
    /\ selector.path = "not_invoked"
    /\ db_calls = <<>>

----------------------------------------------------------------------------
(* C22, as stated: while budget remains (read_count < DAILY_LIMIT) every     *)
(* well-formed feed request whose queries succeed emits a page whose         *)
(* total_read_today is strictly greater than the read_count supplied.        *)
C22_ActiveAlwaysAdvances ==
    (Answered /\ request.read_count < DAILY_LIMIT /\ ~RequestInvalid
       /\ ~SomeQueryFailed)
        => /\ IsPage
           /\ response.pagination.total_read_today > request.read_count

(* C22, amended: while budget remains, a page returns total_read_today =     *)
(* read_count + the number of cards of the page; the count never goes back   *)
(* and is strictly greater exactly when the page carries a card.             *)
C22_AdvancesByCardsServed ==
    (IsPage /\ request.read_count < DAILY_LIMIT)
        => /\ response.pagination.total_read_today
                = request.read_count + Len(response.cards)
           /\ response.pagination.total_read_today >= request.read_count
           /\ (response.pagination.total_read_today > request.read_count
                 <=> Len(response.cards) > 0)

C22_Witness ==
    /\ IsPage
    /\ request.read_count = 0
    /\ ~SomeQueryFailed
    /\ selector.path = "ranked"
    /\ Len(store) > 0
    /\ response.cards = <<>>
    /\ response.pagination.total_read_today = request.read_count
    /\ response.pagination.has_next_page

----------------------------------------------------------------------------
(* C23: when generate_feed is called with a non-empty list of context ids,   *)
(* no card it returns has an id of that list.                                *)
C23_NoContextCardReturned ==
    (pc = "selected" /\ Len(selector.user_context_ids) > 0 /\ ~selector.raised)
        => \A k \in 1..Len(selector.cards) :
              \A i \in 1..Len(selector.user_context_ids) :
                  selector.cards[k].id # selector.user_context_ids[i]

----------------------------------------------------------------------------
(* C24: a feed request whose user_context holds an identifier that is no     *)
(* UUID (its other parameters being valid) is answered with status 200 or    *)
(* with status 400, and with no other status.                                *)
C24_InvalidContextIs200Or400 ==
    (/\ Answered
     /\ ParametersValid(request.page, request.read_count, request.limit)
     /\ \E i \in 1..Len(request.user_context) :
            ~UUIDParses(request.user_context[i]))
        => response.status \in {200, 400}

----------------------------------------------------------------------------
InZoneOf(cards, context_vector) ==
    LET Within(card) == DistanceWithinZone(card.embedding, context_vector)
    IN  SelectSeq(cards, Within)

(* C25: the ranked path looks at the 3 * limit newest cards that carry an    *)
(* embedding, once: it returns min(limit, number of in-zone cards of that    *)
(* pool) distinct in-zone cards of the pool, none of the cards left out      *)
(* being closer to the ideal distance than a card returned; an in-zone card  *)
(* older than the pool is not returned, and a page shorter than limit, even  *)
(* an empty one, is an ordinary result.                                      *)
C25_SinglePassOverPool ==
    Ranked =>
        LET result == selector.cards
            pool == PoolOf(store, selector.limit)
            cv == selector.context_vector
            in_zone == InZoneOf(pool, cv)
            InPool(card) == \E i \in 1..Len(in_zone) : in_zone[i] = card
            Kept(card) == \E j \in 1..Len(result) : result[j] = card
        IN  /\ ~selector.raised
            /\ Len(result) = Min(selector.limit, Len(in_zone))
            /\ \A j \in 1..Len(result) : InPool(result[j])
            /\ \A j, k \in 1..Len(result) : j # k => result[j] # result[k]
            /\ \A i \in 1..Len(in_zone), j \in 1..Len(result) :
                  ~Kept(in_zone[i]) => ~CertainlyCloser(in_zone[i], result[j], cv)
            /\ \A i \in 1..Len(store) :
                  (\A j \in 1..Len(pool) : pool[j] # store[i]) => ~Kept(store[i])

C25_Witness ==
    /\ Ranked
    /\ selector.limit = 1
    /\ Len(store) = 4
    /\ Len(PoolOf(store, selector.limit)) = 3
    /\ store[4].embedding = AtIdeal
    /\ DistanceWithinZone(store[4].embedding, selector.context_vector)
    /\ InZoneOf(PoolOf(store, selector.limit), selector.context_vector) = <<>>
    /\ selector.cards = <<>>
    /\ ~selector.raised

----------------------------------------------------------------------------
CardOf(id) == CHOOSE card \in {store[i] : i \in 1..Len(store)} : card.id = id

(* C26: a request is computed over one snapshot of the store: when           *)
(* generate_feed has ranked cards against a context vector, the cards of the *)
(* page are the cards it selected, even when the store fails after the       *)
(* selection, and their reason tags are computed with that context vector.   *)
C26_OneSnapshot ==
    (IsPage /\ selector.path = "ranked" /\ ~selector.raised)
        => /\ IsSubsequence(Ids(response.cards), Ids(selector.cards))
           /\ \A k \in 1..Len(response.cards) :
                  response.cards[k].reason_tag
                    = calculate_reason_tag(CardOf(response.cards[k].id),
                                           selector.context_vector)

----------------------------------------------------------------------------
(* the cosine of the angle between a and b is exactly n/d (n, d > 0) *)
CosineIs(a, b, n, d) ==
    LET p == dot(a.num, b.num)
        q == dot(a.num, a.num) * dot(b.num, b.num)
    IN  p > 0 /\ d * d * p * p = n * n * q

(* C27: for a card with an embedding and no blindspot tags and a context     *)
(* vector, calculate_reason_tag returns SERENDIPITY exactly when the         *)
(* distance is 0.4 (cosine 0.6), where it returns neither PERSPECTIVE_SHIFT  *)
(* nor DEEP_DIVE; at distance 0.6 (cosine 0.4) it returns PERSPECTIVE_SHIFT, *)
(* not EXPLORE.                                                              *)
C27_BoundaryTags ==
    (/\ Returned("calculate_reason_tag")
     /\ Len(request.card.embedding.num) > 0
     /\ request.card.blindspot_tags = <<>>
     /\ Len(request.context_vector.num) > 0)
        => LET e == request.card.embedding
               cv == request.context_vector
               tag == response.reason_tag
           IN  /\ tag = "SERENDIPITY" <=> CosineIs(e, cv, 6, 10)
               /\ CosineIs(e, cv, 6, 10)
                     => tag \notin {"PERSPECTIVE_SHIFT", "DEEP_DIVE"}
               /\ CosineIs(e, cv, 4, 10) => tag = "PERSPECTIVE_SHIFT"

C27_Witness ==
    /\ Returned("calculate_reason_tag")
    /\ request.card.embedding = Familiar
    /\ request.card.blindspot_tags = <<>>
    /\ request.context_vector = RankContext
    /\ CosineIs(request.card.embedding, request.context_vector, 6, 10)
    /\ response.reason_tag = "SERENDIPITY"

C27_WitnessSixTenths ==
    /\ Returned("calculate_reason_tag")
    /\ request.card.embedding = AtSixTenths
    /\ request.card.blindspot_tags = <<>>
    /\ request.context_vector = RankContext
    /\ CosineIs(request.card.embedding, request.context_vector, 4, 10)
    /\ response.reason_tag = "PERSPECTIVE_SHIFT"

----------------------------------------------------------------------------
(* the cards the caller has been served, the page just returned included *)
ServedSoFar == served_today + (IF IsPage THEN Len(response.cards) ELSE 0)

(* C28: in a session that starts at read_count 0 and echoes total_read_today *)
(* as the next read_count, the cards served in total never exceed            *)
(* DAILY_LIMIT, and total_read_today never decreases and never exceeds       *)
(* DAILY_LIMIT.                                                              *)
C28_DailyBudgetKept ==
    /\ [](/\ ServedSoFar <= DAILY_LIMIT
          /\ read_today <= DAILY_LIMIT
          /\ IsPage => /\ response.pagination.total_read_today >= request.read_count
                       /\ response.pagination.total_read_today <= DAILY_LIMIT)
    /\ [][read_today' >= read_today /\ served_today' >= served_today]_vars

C28_Witness ==
    /\ IsPage
    /\ served_today = DAILY_LIMIT - 1
    /\ request.read_count = DAILY_LIMIT - 1
    /\ request.limit = 20
    /\ Len(store) >= 2
    /\ Len(response.cards) = 1
    /\ response.pagination.total_read_today = DAILY_LIMIT
    /\ HasCompletion

----------------------------------------------------------------------------
(* C29: in a session that echoes total_read_today, if every request made     *)
(* while budget remains returns at least one card, a response with the       *)
(* completion signal comes with the DAILY_LIMIT-th request at the latest.    *)
C29_CompletionWithinLimit ==
    (/\ session_log.requests >= DAILY_LIMIT
     /\ session_log.all_served)
        => session_log.completed

C29_Witness ==
    /\ session_log.requests = DAILY_LIMIT
    /\ session_log.all_served
    /\ session_log.completed
    /\ served_today = DAILY_LIMIT
    /\ read_today = DAILY_LIMIT
    /\ pc = "idle"

----------------------------------------------------------------------------
Reverse(ids) == [i \in 1..Len(ids) |-> ids[Len(ids) + 1 - i]]

(* the list of ids in another order, and with one of its ids repeated *)
Variants(ids) ==
    {Reverse(ids), Append(ids, ids[1]), <<ids[Len(ids)]>> \o ids}

(* the store answered the queries of the call as selector tells *)
DbOf(feed) ==
    [k \in 1..4 |-> IF k = 1 THEN feed.path # "none"
                    ELSE IF k = 2 THEN ~feed.raised
                    ELSE TRUE]

SameFeedFor(ids, feed) ==
    /\ calculate_user_context(store, ids)
          = calculate_user_context(store, feed.user_context_ids)
    /\ generate_feed(store, ids, feed.limit, DbOf(feed))
          = [feed EXCEPT !.user_context_ids = ids]

(* C30: the context vector depends on the set of context ids only: the list  *)
(* in another order, or with an id repeated, gives the same context vector   *)
(* and the same feed.                                                        *)
C30_ContextIsASetOfIds ==
    (pc = "selected" /\ Len(selector.user_context_ids) > 0)
        => \A ids \in Variants(selector.user_context_ids) :
              SameFeedFor(ids, selector)

C30_Witness ==
    /\ pc = "selected"
    /\ selector.path = "ranked"
    /\ ~selector.raised
    /\ Len(store) = MaxStore
    /\ Len(selector.user_context_ids) = 2
    /\ selector.user_context_ids[1] # selector.user_context_ids[2]
    /\ Cardinality(Survivors(selector.user_context_ids)) = 2
    /\ \E i, j \in Survivors(selector.user_context_ids) :
            store[i].embedding # store[j].embedding
    /\ SameFeedFor(Append(selector.user_context_ids, selector.user_context_ids[1]),
                   selector)

====
